---- MODULE Spec2Model ----
(***************************************************************************)
(* A model of the flat-file key-value store of src/src/flatfs.rs.         *)
(*                                                                         *)
(* The state is the directory tree under the store root (the SHARDING     *)
(* descriptor, the shard directories, one file per path), the Store       *)
(* handle of each process and the position of each process inside the     *)
(* operation it is running.  Every filesystem call of the code is one     *)
(* step, so that calls of different processes interleave as they do on a  *)
(* real filesystem.                                                        *)
(***************************************************************************)
EXTENDS Naturals, Sequences, FiniteSets, TLC

VARIABLES
    rootExists,   \* the root directory exists
    sharding,     \* root/SHARDING: [exists, text]
    dirs,         \* the shard directories that exist under the root
    files,        \* function: location of an existing file -> its bytes
    proc,         \* per process: the operation in progress and its position
    store,        \* per process: the strategy of the Store handle it holds
    last,         \* history: per valid key, the last completed put/del
    putVals,      \* history: per valid key, the values handed to put
    snap,         \* history: the tree as it was when the operation began
    faults        \* injected filesystem failures still available

vars == <<rootExists, sharding, dirs, files, proc, store, last, putVals, snap, faults>>

-----------------------------------------------------------------------------
(* Bounds and program constants *)

\* longest value, in bytes
MaxLen == 2

\* filesystem failures that may be pending at once
MaxFaults == 1

RETRY_ATTEMPTS == 6

Procs == {"p1", "p2"}

Bytes == {1, 2}

\* the values handed to put: one byte repeated, as the tests' [i; 128],
\* of every length up to MaxLen
Values == {[i \in 1..n |-> b] : n \in 0..MaxLen, b \in Bytes}

\* the values of full length
LongValues == {v \in Values : Len(v) = MaxLen}

\* one character that is not ASCII (two bytes in UTF-8)
NonAscii == "U+00E9"

KeyEmpty  == <<>>
KeyOne    == <<"a">>
KeyUni    == <<NonAscii>>
KeySep    == <<"a", "/", "b">>
KeyDotA   == <<"a", ".", "a">>
KeyDotB   == <<"a", ".", "b">>
KeyPlain  == <<"b", "a", "b">>
KeyDots   == <<".", ".">>
KeyUp     == <<".", ".", "b">>

Keys == {KeyEmpty, KeyOne, KeyUni, KeySep, KeyDotA, KeyDotB, KeyPlain, KeyDots}

-----------------------------------------------------------------------------
(* Sharding strategy (crate::shard): key -> directory name, descriptor *)

Prefix(n)     == [kind |-> "prefix", n |-> n]
Suffix(n)     == [kind |-> "suffix", n |-> n]
NextToLast(n) == [kind |-> "next-to-last", n |-> n]

DefaultShard == NextToLast(2)

Shards == {NextToLast(2), Prefix(2), Suffix(2), Prefix(1)}

\* no Store handle
Closed == [kind |-> "closed", n |-> 0]

\* the key is long enough for the strategy's window
DirDefined(shard, key) ==
    IF shard.kind = "next-to-last" THEN Len(key) >= shard.n + 1
    ELSE Len(key) >= shard.n

Dir(shard, key) ==
    CASE shard.kind = "prefix" -> SubSeq(key, 1, shard.n)
      [] shard.kind = "suffix" -> SubSeq(key, Len(key) - shard.n + 1, Len(key))
      [] shard.kind = "next-to-last" -> SubSeq(key, Len(key) - shard.n, Len(key) - 1)

DescriptorPrefix == "/repo/flatfs/shard/v1"

VariantNames == {"prefix", "suffix", "next-to-last"}

DigitStr == <<"1", "2", "3">>

\* the single-line text of a strategy, as its path-like segments
ToDescriptor(shard) == <<DescriptorPrefix, shard.kind, DigitStr[shard.n]>>

WellFormed(text) ==
    /\ Len(text) = 3
    /\ text[1] = DescriptorPrefix
    /\ text[2] \in VariantNames
    /\ \E n \in 1..Len(DigitStr) : DigitStr[n] = text[3]

\* defined on well-formed text only
FromDescriptor(text) ==
    [kind |-> text[2], n |-> CHOOSE n \in 1..Len(DigitStr) : DigitStr[n] = text[3]]

-----------------------------------------------------------------------------
(* Keys and paths *)

ByteLen(c) == IF c = NonAscii THEN 2 ELSE 1

RECURSIVE KeyLen(_)
KeyLen(key) == IF key = <<>> THEN 0 ELSE ByteLen(Head(key)) + KeyLen(Tail(key))

IsAscii(key) == \A i \in 1..Len(key) : key[i] # NonAscii

Contains(key, c) == \E i \in 1..Len(key) : key[i] = c

ensure_valid_key_NoSeparatorCheck(key) == ~(KeyLen(key) < 2 \/ ~IsAscii(key))

ensure_valid_key(key) == ~(KeyLen(key) < 2 \/ ~IsAscii(key) \/ Contains(key, "/"))

DotDot == <<".", ".">>

\* position of the last "." of a file name, 0 when there is none
LastDot(name) ==
    IF Contains(name, ".")
    THEN CHOOSE i \in 1..Len(name) :
            name[i] = "." /\ \A j \in (i + 1)..Len(name) : name[j] # "."
    ELSE 0

\* Path::file_stem: the name up to its last ".", the whole name when the
\* name has no "." or only a leading one
FileStem(name) ==
    IF name = DotDot \/ LastDot(name) <= 1 THEN name
    ELSE SubSeq(name, 1, LastDot(name) - 1)

\* PathBuf::set_extension / Path::with_extension on the last component:
\* nothing happens when the path ends in "..", otherwise the extension of
\* the name is replaced
SetExtension(name, ext) ==
    IF name = DotDot THEN name ELSE FileStem(name) \o <<".">> \o ext

EXTENSION == <<"data">>

as_path(shard, key) ==
    [dir |-> Dir(shard, key), name |-> SetExtension(key, EXTENSION)]

temp_filepath_InPlace(filepath) == filepath

temp_filepath(filepath) ==
    [dir |-> filepath.dir, name |-> SetExtension(filepath.name, <<".", "temp">>)]

-----------------------------------------------------------------------------
(* The filesystem *)

\* root/"." is the root itself
Loc(path) == [dir |-> IF path.dir = <<".">> THEN <<>> ELSE path.dir, name |-> path.name]

\* the directory a path's file lives in exists (root/".." always does)
DirExistsIn(rt, ds, dir) ==
    rt /\ (dir \in {<<>>, <<".">>, DotDot} \/ dir \in ds)

DirExists(dir) == DirExistsIn(rootExists, dirs, dir)

\* a path whose last component is ".." names a directory, not a file
IsDirPath(path) == path.name = DotDot

Ok(v)  == [tag |-> "Ok", val |-> v]
Err(k) == [tag |-> "Err", val |-> k]
NoRes  == [tag |-> "None", val |-> ""]

\* fs::read on a tree (fl: files, ds: dirs, rt: root exists)
ReadIn(rt, ds, fl, path) ==
    IF ~DirExistsIn(rt, ds, path.dir) THEN Err("NotFound")
    ELSE IF IsDirPath(path) THEN Err("IsADirectory")
    ELSE IF Loc(path) \in DOMAIN fl THEN Ok(fl[Loc(path)])
    ELSE Err("NotFound")

\* Path::metadata().len() on a tree; a directory has a size too
StatIn(rt, ds, fl, path) ==
    IF ~DirExistsIn(rt, ds, path.dir) THEN Err("NotFound")
    ELSE IF IsDirPath(path) THEN Ok("dirsize")
    ELSE IF Loc(path) \in DOMAIN fl THEN Ok(Len(fl[Loc(path)]))
    ELSE Err("NotFound")

FsRead(path) == ReadIn(rootExists, dirs, files, path)
FsStat(path) == StatIn(rootExists, dirs, files, path)

\* fs::remove_file
FsRemoveResult(path) ==
    IF ~DirExists(path.dir) THEN Err("NotFound")
    ELSE IF IsDirPath(path) THEN Err("IsADirectory")
    ELSE IF Loc(path) \in DOMAIN files THEN Ok("unit")
    ELSE Err("NotFound")

\* fs::create_dir of a path's parent directory
FsCreateDirResult(dir) ==
    IF ~rootExists THEN Err("NotFound")
    ELSE IF DirExists(dir) THEN Err("AlreadyExists")
    ELSE Ok("unit")

\* File::create (open for writing, create, truncate)
FsCreateResult(path) ==
    IF ~DirExists(path.dir) THEN Err("NotFound")
    ELSE IF IsDirPath(path) THEN Err("IsADirectory")
    ELSE Ok("unit")

\* fs::rename(from, to)
FsRenameResult(from, to) ==
    IF ~DirExists(from.dir) THEN Err("NotFound")
    ELSE IF IsDirPath(from) \/ IsDirPath(to) THEN Err("IsADirectory")
    ELSE IF Loc(from) \in DOMAIN files THEN Ok("unit")
    ELSE Err("NotFound")

Without(f, x) == [y \in (DOMAIN f) \ {x} |-> f[y]]

With(f, x, v) == [y \in (DOMAIN f) \cup {x} |-> IF y = x THEN v ELSE f[y]]

\* one write(2) of byte b at offset off (0-based); a gap reads as zeros
WriteAt(content, off, b) ==
    [i \in 1..(IF Len(content) > off + 1 THEN Len(content) ELSE off + 1) |->
        IF i = off + 1 THEN b
        ELSE IF i <= Len(content) THEN content[i]
        ELSE 0]

-----------------------------------------------------------------------------
(* Processes *)

NoFd == [state |-> "none", loc |-> [dir |-> <<>>, name |-> <<>>]]

OpenFd(path) == [state |-> "open", loc |-> Loc(path)]

Idle ==
    [pc |-> "idle", op |-> "none", key |-> <<>>, val |-> <<>>, shard |-> Closed,
     n |-> 0, fd |-> NoFd, off |-> 0, io |-> FALSE, raced |-> FALSE, res |-> NoRes]

ValidKeys == {k \in Keys : ensure_valid_key(k)}

KeyOps == {"put", "get", "get_size", "del"}

AllOps == KeyOps \cup {"with_shard"}

Never      == [tag |-> "never", val |-> <<>>]
Deleted    == [tag |-> "deleted", val |-> <<>>]
Unknown    == [tag |-> "unknown", val |-> <<>>]
Stored(v)  == [tag |-> "val", val |-> v]

Snapshot == [rootExists |-> rootExists, sharding |-> sharding, dirs |-> dirs, files |-> files]

NoDescriptor == [exists |-> FALSE, text |-> <<>>]

Init ==
    /\ rootExists = FALSE
    /\ sharding = NoDescriptor
    /\ dirs = {}
    /\ files = [x \in {} |-> <<>>]
    /\ proc = [p \in Procs |-> Idle]
    /\ store = [p \in Procs |-> Closed]
    /\ last = [k \in ValidKeys |-> Never]
    /\ putVals = [k \in ValidKeys |-> {}]
    /\ snap = [rootExists |-> FALSE, sharding |-> NoDescriptor, dirs |-> {},
               files |-> [x \in {} |-> <<>>]]
    /\ faults = 0

retry_OneMore(n, res) ==
    IF res.tag = "Ok" THEN "ok"
    ELSE IF n < RETRY_ATTEMPTS THEN "again"
    ELSE "fail"

retry_StopsOnNotFound(n, res) ==
    IF res.tag = "Ok" THEN "ok"
    ELSE IF n + 1 < RETRY_ATTEMPTS /\ res.val # "NotFound" THEN "again"
    ELSE "fail"

\* the retry policy: what follows an attempt that ended in res after n
\* earlier failures of the same call
retry(n, res) ==
    IF res.tag = "Ok" THEN "ok"
    ELSE IF n + 1 < RETRY_ATTEMPTS THEN "again"
    ELSE "fail"

Inject == IF faults > 0 THEN {FALSE, TRUE} ELSE {FALSE}

Outcome(inj, natural) == IF inj THEN Err("Injected") ELSE natural

Spend(inj) == faults' = IF inj THEN faults - 1 ELSE faults

FirstPc(op) ==
    CASE op = "put" -> "put_check"
      [] op = "get" -> "get_read"
      [] op = "get_size" -> "size_stat"
      [] op = "del" -> "del_remove"

filepath(p) == as_path(store[p], proc[p].key)

Finish(p, res) == [proc[p] EXCEPT !.pc = "done", !.res = res, !.fd = NoFd, !.n = 0]

\* A process calls with_shard, put, get, get_size or del.  The key is
\* validated here, before any filesystem call.
Begin(p, ops, keys, vals, shards, hist) ==
    /\ proc[p].pc = "idle"
    /\ \E op \in ops :
        IF op = "with_shard"
        THEN \E s \in shards :
                /\ proc' = [proc EXCEPT ![p] = [Idle EXCEPT !.pc = "ws_check",
                                                   !.op = op, !.shard = s]]
                /\ store' = [store EXCEPT ![p] = Closed]
                /\ putVals' = putVals
        ELSE \E k \in keys : \E v \in (IF op = "put" THEN vals ELSE {<<>>}) :
                /\ store[p] # Closed
                /\ ensure_valid_key(k) => DirDefined(store[p], k)
                /\ proc' = [proc EXCEPT ![p] =
                      IF ensure_valid_key(k)
                      THEN [Idle EXCEPT !.pc = FirstPc(op), !.op = op, !.key = k, !.val = v]
                      ELSE [Idle EXCEPT !.pc = "done", !.op = op, !.key = k, !.val = v,
                                        !.res = Err("InvalidKey")]]
                /\ store' = store
                /\ putVals' = IF hist = "conc" /\ op = "put" /\ ensure_valid_key(k)
                              THEN [putVals EXCEPT ![k] = @ \cup {v}]
                              ELSE putVals
    /\ snap' = IF hist \in {"seq", "crash"} THEN Snapshot ELSE snap
    /\ UNCHANGED <<rootExists, sharding, dirs, files, last, faults>>

\* get: one attempt of the retried fs::read
GetRead(p) ==
    /\ proc[p].pc = "get_read"
    /\ \E inj \in Inject :
        LET out == Outcome(inj, FsRead(filepath(p)))
            nxt == retry(proc[p].n, out)
        IN  /\ proc' = [proc EXCEPT ![p] =
                  IF nxt = "again" THEN [proc[p] EXCEPT !.n = @ + 1, !.io = TRUE]
                  ELSE [Finish(p, out) EXCEPT !.io = TRUE]]
            /\ Spend(inj)
    /\ UNCHANGED <<rootExists, sharding, dirs, files, store, last, putVals, snap>>

\* get_size: one metadata query, not retried
SizeStat(p) ==
    /\ proc[p].pc = "size_stat"
    /\ \E inj \in Inject :
        /\ proc' = [proc EXCEPT ![p] =
              [Finish(p, Outcome(inj, FsStat(filepath(p)))) EXCEPT !.io = TRUE]]
        /\ Spend(inj)
    /\ UNCHANGED <<rootExists, sharding, dirs, files, store, last, putVals, snap>>

\* file descriptors after the file at loc lost its name
Detach(pr, loc) ==
    [q \in Procs |->
        IF pr[q].fd.state = "open" /\ pr[q].fd.loc = loc
        THEN [pr[q] EXCEPT !.fd = [@ EXCEPT !.state = "detached"]]
        ELSE pr[q]]

\* del: one attempt of the retried fs::remove_file
DelRemove(p) ==
    /\ proc[p].pc = "del_remove"
    /\ \E inj \in Inject :
        LET out == Outcome(inj, FsRemoveResult(filepath(p)))
            nxt == retry(proc[p].n, out)
        IN  /\ files' = IF nxt = "ok" THEN Without(files, Loc(filepath(p))) ELSE files
            /\ proc' = IF nxt = "again"
                       THEN [proc EXCEPT ![p] = [@ EXCEPT !.n = @ + 1, !.io = TRUE]]
                       ELSE [(IF nxt = "ok" THEN Detach(proc, Loc(filepath(p))) ELSE proc)
                                EXCEPT ![p] = [Finish(p, out) EXCEPT !.io = TRUE]]
            /\ Spend(inj)
    /\ UNCHANGED <<rootExists, sharding, dirs, store, last, putVals, snap>>

\* put: parent_dir.exists()
PutCheck(p) ==
    /\ proc[p].pc = "put_check"
    /\ proc' = [proc EXCEPT ![p] =
          [@ EXCEPT !.pc = IF DirExists(filepath(p).dir) THEN "put_open" ELSE "put_mkdir",
                    !.io = TRUE]]
    /\ UNCHANGED <<rootExists, sharding, dirs, files, store, last, putVals, snap, faults>>

\* what put does with the final error of the retried create_dir: a
\* directory that already exists is fine
put_after_mkdir_error(kind) == IF kind # "AlreadyExists" THEN "return" ELSE "proceed"

\* put: one attempt of the retried fs::create_dir of the shard directory
PutMkdir(p) ==
    /\ proc[p].pc = "put_mkdir"
    /\ \E inj \in Inject :
        LET out == Outcome(inj, FsCreateDirResult(filepath(p).dir))
            nxt == retry(proc[p].n, out)
        IN  /\ dirs' = IF nxt = "ok" THEN dirs \cup {filepath(p).dir} ELSE dirs
            /\ proc' = [proc EXCEPT ![p] =
                  CASE nxt = "again" -> [@ EXCEPT !.n = @ + 1]
                    [] nxt = "ok" -> [@ EXCEPT !.pc = "put_open", !.n = 0]
                    [] nxt = "fail" ->
                         IF put_after_mkdir_error(out.val) = "return"
                         THEN Finish(p, out)
                         ELSE [@ EXCEPT !.pc = "put_open", !.n = 0, !.raced = TRUE]]
            /\ Spend(inj)
    /\ UNCHANGED <<rootExists, sharding, files, store, last, putVals, snap>>

\* put: an attempt of the retried fs::write begins: the temporary file is
\* opened, created if missing, truncated if present
PutOpen(p) ==
    /\ proc[p].pc = "put_open"
    /\ \E inj \in Inject :
        LET tmp == temp_filepath(filepath(p))
            out == Outcome(inj, FsCreateResult(tmp))
            nxt == retry(proc[p].n, out)
        IN  /\ files' = IF nxt = "ok" THEN With(files, Loc(tmp), <<>>) ELSE files
            /\ proc' = [proc EXCEPT ![p] =
                  CASE nxt = "again" -> [@ EXCEPT !.n = @ + 1]
                    [] nxt = "fail" -> Finish(p, out)
                    [] nxt = "ok" ->
                         IF proc[p].val = <<>>
                         THEN [@ EXCEPT !.pc = "put_rename", !.n = 0]
                         ELSE [@ EXCEPT !.pc = "put_write", !.fd = OpenFd(tmp), !.off = 0]]
            /\ Spend(inj)
    /\ UNCHANGED <<rootExists, sharding, dirs, store, last, putVals, snap>>

\* put: write_all hands the next byte to the open file; after the last
\* byte the file is closed and the attempt has succeeded
PutWrite(p) ==
    /\ proc[p].pc = "put_write"
    /\ \E inj \in Inject :
        LET me  == proc[p]
            nxt == retry(me.n, Outcome(inj, Ok("unit")))
        IN  /\ files' = IF nxt = "ok" /\ me.fd.state = "open"
                        THEN [files EXCEPT ![me.fd.loc] = WriteAt(@, me.off, me.val[me.off + 1])]
                        ELSE files
            /\ proc' = [proc EXCEPT ![p] =
                  CASE nxt = "again" -> [@ EXCEPT !.pc = "put_open", !.n = @ + 1, !.fd = NoFd]
                    [] nxt = "fail" -> Finish(p, Err("Injected"))
                    [] nxt = "ok" ->
                         IF me.off + 1 = Len(me.val)
                         THEN [@ EXCEPT !.pc = "put_rename", !.n = 0, !.fd = NoFd, !.off = 0]
                         ELSE [@ EXCEPT !.off = @ + 1]]
            /\ Spend(inj)
    /\ UNCHANGED <<rootExists, sharding, dirs, store, last, putVals, snap>>

\* file descriptors after the file at from was renamed onto to
Moved(pr, from, to) ==
    IF from = to THEN pr
    ELSE [q \in Procs |->
            IF pr[q].fd.state = "open" /\ pr[q].fd.loc = from
            THEN [pr[q] EXCEPT !.fd = [@ EXCEPT !.loc = to]]
            ELSE IF pr[q].fd.state = "open" /\ pr[q].fd.loc = to
            THEN [pr[q] EXCEPT !.fd = [@ EXCEPT !.state = "detached"]]
            ELSE pr[q]]

\* put: one attempt of the retried fs::rename of the temporary file onto
\* the final path
PutRename(p) ==
    /\ proc[p].pc = "put_rename"
    /\ \E inj \in Inject :
        LET fin == filepath(p)
            tmp == temp_filepath(fin)
            out == Outcome(inj, FsRenameResult(tmp, fin))
            nxt == retry(proc[p].n, out)
        IN  /\ files' = IF nxt = "ok"
                        THEN With(Without(files, Loc(tmp)), Loc(fin), files[Loc(tmp)])
                        ELSE files
            /\ proc' = IF nxt = "again"
                       THEN [proc EXCEPT ![p] = [@ EXCEPT !.n = @ + 1]]
                       ELSE [(IF nxt = "ok" THEN Moved(proc, Loc(tmp), Loc(fin)) ELSE proc)
                                EXCEPT ![p] = Finish(p, out)]
            /\ Spend(inj)
    /\ UNCHANGED <<rootExists, sharding, dirs, store, last, putVals, snap>>

\* with_shard: path.exists() && path.join(FILE_NAME).exists()
WsCheck(p) ==
    /\ proc[p].pc = "ws_check"
    /\ proc' = [proc EXCEPT ![p] =
          [@ EXCEPT !.pc = IF rootExists /\ sharding.exists THEN "ws_open" ELSE "ws_mkdirs",
                    !.io = TRUE]]
    /\ UNCHANGED <<rootExists, sharding, dirs, files, store, last, putVals, snap, faults>>

\* create: fs::create_dir_all(path)
WsCreateDirs(p) ==
    /\ proc[p].pc = "ws_mkdirs"
    /\ \E inj \in Inject :
        /\ rootExists' = IF inj THEN rootExists ELSE TRUE
        /\ proc' = [proc EXCEPT ![p] =
              IF inj THEN Finish(p, Err("Injected")) ELSE [@ EXCEPT !.pc = "ws_trunc"]]
        /\ Spend(inj)
    /\ UNCHANGED <<sharding, dirs, files, store, last, putVals, snap>>

\* create: shard.write_to_file(path) opens root/SHARDING, truncating it
WsTruncate(p) ==
    /\ proc[p].pc = "ws_trunc"
    /\ \E inj \in Inject :
        /\ sharding' = IF inj \/ ~rootExists THEN sharding ELSE [exists |-> TRUE, text |-> <<>>]
        /\ proc' = [proc EXCEPT ![p] =
              IF inj THEN Finish(p, Err("Injected"))
              ELSE IF ~rootExists THEN Finish(p, Err("NotFound"))
              ELSE [@ EXCEPT !.pc = "ws_write"]]
        /\ Spend(inj)
    /\ UNCHANGED <<rootExists, dirs, files, store, last, putVals, snap>>

\* create: shard.write_to_file(path) writes the descriptor of the strategy
WsWrite(p) ==
    /\ proc[p].pc = "ws_write"
    /\ sharding' = [exists |-> TRUE, text |-> ToDescriptor(proc[p].shard)]
    /\ proc' = [proc EXCEPT ![p] = [@ EXCEPT !.pc = "ws_open"]]
    /\ UNCHANGED <<rootExists, dirs, files, store, last, putVals, snap, faults>>

\* Shard::from_file: read root/SHARDING and parse it
from_file ==
    IF ~(rootExists /\ sharding.exists) THEN Err("NotFound")
    ELSE IF ~WellFormed(sharding.text) THEN Err("Parse")
    ELSE Ok(FromDescriptor(sharding.text))

open_NoComparison(shard, existing_shard) == Ok(shard)

open_BindsDefault(shard, existing_shard) ==
    IF shard # existing_shard THEN Err("Config") ELSE Ok(DefaultShard)

\* open, once the descriptor is parsed: the strategies must be equal
open(shard, existing_shard) ==
    IF shard # existing_shard THEN Err("Config") ELSE Ok(shard)

\* open: read and compare the descriptor, construct the Store
WsOpen(p) ==
    /\ proc[p].pc = "ws_open"
    /\ \E inj \in Inject :
        LET existing == Outcome(inj, from_file)
            out == IF existing.tag = "Ok" THEN open(proc[p].shard, existing.val) ELSE existing
        IN  /\ proc' = [proc EXCEPT ![p] = Finish(p, out)]
            /\ store' = [store EXCEPT ![p] = IF out.tag = "Ok" THEN out.val ELSE Closed]
            /\ Spend(inj)
    /\ UNCHANGED <<rootExists, sharding, dirs, files, last, putVals, snap>>

\* what a completed operation says about its key
Learned(me, old) ==
    IF me.op = "put" THEN (IF me.res.tag = "Ok" THEN Stored(me.val) ELSE Unknown)
    ELSE IF me.op = "del"
    THEN (IF me.res.tag = "Ok" THEN Deleted ELSE IF old.tag = "val" THEN Unknown ELSE old)
    ELSE old

\* the operation returns to its caller
Return(p, hist) ==
    /\ proc[p].pc = "done"
    /\ proc' = [proc EXCEPT ![p] = Idle]
    /\ last' = IF hist = "seq" /\ proc[p].key \in ValidKeys
               THEN [last EXCEPT ![proc[p].key] = Learned(proc[p], @)]
               ELSE last
    /\ snap' = IF hist \in {"seq", "crash"} THEN Snapshot ELSE snap
    /\ UNCHANGED <<rootExists, sharding, dirs, files, store, putVals, faults>>

\* the process dies in the middle of an operation; its files are closed
Crash(p) ==
    /\ proc[p].pc \notin {"idle", "crashed"}
    /\ proc' = [proc EXCEPT ![p] = [@ EXCEPT !.pc = "crashed", !.fd = NoFd]]
    /\ UNCHANGED <<rootExists, sharding, dirs, files, store, last, putVals, snap, faults>>

\* a new process takes the place of the dead one
Restart(p) ==
    /\ proc[p].pc = "crashed"
    /\ proc' = [proc EXCEPT ![p] = Idle]
    /\ store' = [store EXCEPT ![p] = Closed]
    /\ snap' = Snapshot
    /\ UNCHANGED <<rootExists, sharding, dirs, files, last, putVals, faults>>

\* the filesystem turns faulty: one more call may fail
Degrade ==
    /\ faults < MaxFaults
    /\ faults' = faults + 1
    /\ UNCHANGED <<rootExists, sharding, dirs, files, proc, store, last, putVals, snap>>

WsStep(p) ==
    \/ WsCheck(p)
    \/ WsCreateDirs(p)
    \/ WsTruncate(p)
    \/ WsWrite(p)
    \/ WsOpen(p)

PutStep(p) ==
    \/ PutCheck(p)
    \/ PutMkdir(p)
    \/ PutOpen(p)
    \/ PutWrite(p)
    \/ PutRename(p)

Step(p) ==
    \/ WsStep(p)
    \/ PutStep(p)
    \/ GetRead(p)
    \/ SizeStat(p)
    \/ DelRemove(p)

\* one process, one operation at a time
Next ==
    \/ Begin("p1", AllOps, Keys, Values, Shards, "seq")
    \/ Step("p1")
    \/ Return("p1", "seq")

Spec == Init /\ [][Next]_vars

CrashKeys == {KeyDotA, KeyPlain}

CrashShards == {DefaultShard, Suffix(2)}

\* one process, one operation at a time; the process may die at any step
NextCrash ==
    \/ Begin("p1", AllOps, CrashKeys, Values, CrashShards, "crash")
    \/ Step("p1")
    \/ Return("p1", "crash")
    \/ Crash("p1")
    \/ Restart("p1")

SpecCrash == Init /\ [][NextCrash]_vars

ConcShards == {DefaultShard, Prefix(2)}

\* a process opens the store once and then works through its handle
OpsOf(p, ops) == IF store[p] = Closed THEN {"with_shard"} ELSE ops

\* two processes on the same root, both writing and reading one key
NextConc ==
    \E p \in Procs :
        \/ Begin(p, OpsOf(p, {"put", "get"}), {KeyDotA}, LongValues, ConcShards, "conc")
        \/ WsStep(p)
        \/ PutStep(p)
        \/ GetRead(p)
        \/ Return(p, "conc")

SpecConc == Init /\ [][NextConc]_vars

\* one writer and one reader on the same root
NextRW ==
    \/ Begin("p1", OpsOf("p1", {"put"}), {KeyDotA, KeyDotB}, LongValues, {DefaultShard}, "conc")
    \/ Begin("p2", OpsOf("p2", {"get"}), {KeyDotA, KeyDotB}, LongValues, {DefaultShard}, "conc")
    \/ \E p \in Procs :
        \/ WsStep(p)
        \/ PutStep(p)
        \/ GetRead(p)
        \/ Return(p, "conc")

SpecRW == Init /\ [][NextRW]_vars

FaultKeys == {KeySep, KeyPlain, KeyDots}

FaultShards == {DefaultShard, Prefix(2)}

\* one process on a filesystem where any call may fail, again and again;
\* an operation that has begun keeps running
NextFault ==
    \/ Begin("p1", OpsOf("p1", KeyOps), FaultKeys, Values, FaultShards, "seq")
    \/ Step("p1")
    \/ Return("p1", "seq")
    \/ Degrade

SpecFault == Init /\ [][NextFault]_vars

\* one process putting, reading and deleting one key on a filesystem where
\* any call may fail, again and again; a call of the store that has begun
\* keeps running until it returns
RetryStep ==
    \/ WsStep("p1")
    \/ PutStep("p1")
    \/ GetRead("p1")
    \/ DelRemove("p1")

NextRetry ==
    \/ Begin("p1", OpsOf("p1", {"put", "get", "del"}), {KeyPlain}, LongValues, {DefaultShard}, "seq")
    \/ RetryStep
    \/ Return("p1", "seq")
    \/ Degrade

SpecRetry == Init /\ [][NextRetry]_vars /\ WF_vars(RetryStep)

PathKeys == {KeyUp, KeyPlain}

\* one process; a key that begins with two dots, and a plain one
NextPaths ==
    \/ Begin("p1", AllOps, PathKeys, Values, Shards, "seq")
    \/ Step("p1")
    \/ Return("p1", "seq")

SpecPaths == Init /\ [][NextPaths]_vars

-----------------------------------------------------------------------------
(* Properties *)

SameRes(a, b) == a.tag = b.tag /\ a.val = b.val

\* process p has finished a call of op on a valid key and holds its result
Finished(p, op) ==
    /\ proc[p].pc = "done"
    /\ proc[p].op = op
    /\ proc[p].key \in ValidKeys

\* what get(k) and get_size(k) return through the handle of p, now and
\* when the operation in progress began
GetNow(p, k)   == ReadIn(rootExists, dirs, files, as_path(store[p], k))
GetThen(p, k)  == ReadIn(snap.rootExists, snap.dirs, snap.files, as_path(store[p], k))
SizeNow(p, k)  == StatIn(rootExists, dirs, files, as_path(store[p], k))
SizeThen(p, k) == StatIn(snap.rootExists, snap.dirs, snap.files, as_path(store[p], k))

\* C1: round trip. When get(k) returns and the last completed put or del
\* of k was a successful put(k, v), get returns exactly v.
C1_RoundTrip ==
    \A p \in Procs :
        (Finished(p, "get") /\ last[proc[p].key].tag = "val")
            => (proc[p].res.tag = "Ok" /\ proc[p].res.val = last[proc[p].key].val)

\* the file names that end in the final extension
IsFinal(loc) == loc.name # DotDot /\ loc.name[Len(loc.name)] = "data"

PutPcs == {"put_check", "put_mkdir", "put_open", "put_write", "put_rename"}

\* a put of key k is in progress
PutInProgress(k) ==
    \E w \in Procs : proc[w].op = "put" /\ proc[w].key = k /\ proc[w].pc \in PutPcs

\* every file at a final path holds a value handed in full to put
FinalFilesWhole ==
    \A loc \in DOMAIN files :
        IsFinal(loc) => files[loc] \in UNION {putVals[k] : k \in ValidKeys}

\* C2: one writer, one reader. A get(k) that ends while a put of k is in
\* progress fails or returns a value that was handed in full to a put of
\* k, and no file at a final path ever holds anything but a value handed
\* in full to put.
C2_NoTornReadOneWriter ==
    [][/\ \A p \in Procs :
            (proc[p].pc = "get_read" /\ proc'[p].pc = "done" /\ PutInProgress(proc[p].key))
                => \/ proc'[p].res.tag = "Err"
                   \/ proc'[p].res.val \in putVals[proc[p].key]
       /\ FinalFilesWhole']_vars

\* C3: two writers of one key. Every get(k) that succeeds returns a value
\* handed in full to a put of k: never a mixture, a prefix or an empty
\* truncation.
C3_LastWriterWins ==
    \A p \in Procs :
        (Finished(p, "get") /\ proc[p].res.tag = "Ok")
            => proc[p].res.val \in putVals[proc[p].key]

\* C4: a crash at any step of put(k, v) leaves the file at k's final path
\* as it was before the put or holding exactly v; nothing else changed but
\* the temporary file and the shard directory.
C4_CrashSafety ==
    \A p \in Procs :
        (proc[p].pc = "crashed" /\ proc[p].op = "put" /\ proc[p].key \in ValidKeys) =>
            LET fin == filepath(p)
                tmp == temp_filepath(fin)
                rest == (DOMAIN files \cup DOMAIN snap.files) \ {Loc(fin), Loc(tmp)}
            IN  /\ \/ SameRes(GetNow(p, proc[p].key), GetThen(p, proc[p].key))
                   \/ SameRes(GetNow(p, proc[p].key), Ok(proc[p].val))
                /\ \A loc \in rest :
                      /\ loc \in DOMAIN files
                      /\ loc \in DOMAIN snap.files
                      /\ files[loc] = snap.files[loc]
                /\ snap.dirs \subseteq dirs
                /\ dirs \subseteq snap.dirs \cup {fin.dir}
                /\ sharding = snap.sharding
                /\ rootExists = snap.rootExists

\* C4 witness: the process died while writing the temporary file of a put
\* that overwrites a different stored value
C4_Witness ==
    \E p \in Procs :
        /\ proc[p].pc = "crashed"
        /\ proc[p].op = "put"
        /\ Loc(temp_filepath(filepath(p))) \in DOMAIN files
        /\ Len(files[Loc(temp_filepath(filepath(p)))]) < Len(proc[p].val)
        /\ Loc(filepath(p)) \in DOMAIN files
        /\ files[Loc(filepath(p))] # proc[p].val
        /\ files[Loc(filepath(p))] # <<>>

\* the root held the descriptor of strategy a when the call began
CreatedWith(a) ==
    /\ snap.rootExists
    /\ snap.sharding = [exists |-> TRUE, text |-> ToDescriptor(a)]

\* C5: on a root created with strategy A, with_shard(root, B) with B # A
\* fails, constructs no Store and leaves SHARDING unchanged, and
\* with_shard(root, A) succeeds.
C5_DescriptorCompatibility ==
    \A p \in Procs : \A a \in Shards :
        (proc[p].pc = "done" /\ proc[p].op = "with_shard" /\ CreatedWith(a)) =>
            /\ sharding = snap.sharding
            /\ proc[p].shard # a =>
                  (proc[p].res.tag = "Err" /\ proc[p].res.val = "Config" /\ store[p] = Closed)
            /\ proc[p].shard = a => (proc[p].res.tag = "Ok" /\ store[p] = a)

\* C5 witness: an open with another strategy has just been refused
C5_Witness ==
    \E p \in Procs : \E a \in Shards :
        /\ proc[p].pc = "done"
        /\ proc[p].op = "with_shard"
        /\ CreatedWith(a)
        /\ proc[p].shard # a
        /\ proc[p].shard.kind = a.kind
        /\ proc[p].res.tag = "Err"

\* C6: for every Store handle, the descriptor exists and is that of the
\* handle's strategy.
C6_DescriptorInvariant ==
    \A p \in Procs :
        store[p] # Closed =>
            (sharding.exists /\ sharding.text = ToDescriptor(store[p]))

\* a key the validation rule must refuse
Invalid(key) == KeyLen(key) <= 1 \/ Contains(key, "/") \/ ~IsAscii(key)

\* C7: put, get, get_size and del on an invalid key return a validation
\* error without any filesystem call or retry; the tree is unchanged.
C7_ValidationFirst ==
    \A p \in Procs :
        (proc[p].pc = "done" /\ proc[p].op \in KeyOps /\ Invalid(proc[p].key)) =>
            /\ proc[p].res.tag = "Err"
            /\ proc[p].res.val = "InvalidKey"
            /\ ~proc[p].io
            /\ Snapshot = snap

\* C7 witness: a put on a key with a path separator has been refused
C7_Witness ==
    \E p \in Procs :
        /\ proc[p].pc = "done"
        /\ proc[p].op = "put"
        /\ proc[p].key = KeySep
        /\ proc[p].val # <<>>
        /\ proc[p].res.tag = "Err"
        /\ files # [x \in {} |-> <<>>]

\* C8: get(k) and del(k) on a key never put, or deleted last, return an
\* error and leave the store unchanged.
C8_AbsentKeysAreErrors ==
    \A p \in Procs :
        ((Finished(p, "get") \/ Finished(p, "del"))
            /\ last[proc[p].key].tag \in {"never", "deleted"})
            => (proc[p].res.tag = "Err" /\ Snapshot = snap)

\* C9: a successful put(k, v) or del(k) leaves get(k2) and get_size(k2)
\* unchanged for every other key k2, and at rest every key put and not
\* deleted reads as the value last put under it.
C9_PerKeyIsolation ==
    \A p \in Procs :
        /\ ((Finished(p, "put") \/ Finished(p, "del")) /\ proc[p].res.tag = "Ok") =>
              \A k2 \in ValidKeys \ {proc[p].key} :
                  DirDefined(store[p], k2) =>
                      /\ SameRes(GetNow(p, k2), GetThen(p, k2))
                      /\ SameRes(SizeNow(p, k2), SizeThen(p, k2))
        /\ (proc[p].pc = "idle" /\ store[p] # Closed) =>
              \A k \in ValidKeys :
                  last[k].tag = "val" => SameRes(GetNow(p, k), Ok(last[k].val))

\* C10: after a successful put(k, v), get_size(k) returns len(v), the
\* length of what get(k) returns; on an absent key get_size fails.
C10_SizeAgreement ==
    \A p \in Procs :
        Finished(p, "get_size") =>
            /\ last[proc[p].key].tag = "val" =>
                  /\ proc[p].res.tag = "Ok"
                  /\ proc[p].res.val = Len(last[proc[p].key].val)
                  /\ GetNow(p, proc[p].key).tag = "Ok"
                  /\ proc[p].res.val = Len(GetNow(p, proc[p].key).val)
            /\ last[proc[p].key].tag \in {"never", "deleted"} => proc[p].res.tag = "Err"

\* the path of key k with the whole key as the file stem
WholeKeyPath(shard, k) == [dir |-> Dir(shard, k), name |-> k \o <<".">> \o EXTENSION]

KeyFoobar == <<"f", "o", "o", "b", "a", "r">>

\* C11: path resolution. The path every key operation uses for a valid
\* key k is root / dir(k) / (k followed by ".data"), the whole key being
\* the file stem; with the default strategy "foobar" resolves to
\* root/ba/foobar.data.
C11_PathResolution ==
    /\ as_path(DefaultShard, KeyFoobar) = [dir |-> <<"b", "a">>, name |-> KeyFoobar \o <<".", "data">>]
    /\ \A p \in Procs :
          (proc[p].op \in KeyOps /\ proc[p].key \in ValidKeys
              /\ proc[p].pc # "idle" /\ store[p] # Closed)
              => filepath(p) = WholeKeyPath(store[p], proc[p].key)

\* C12: bootstrap. When with_shard(root, s) succeeds on a root that did
\* not exist or had no SHARDING file, the root exists, SHARDING holds
\* exactly the descriptor of s and the Store is bound to s.
C12_BootstrapWritesDescriptor ==
    \A p \in Procs :
        (proc[p].pc = "done" /\ proc[p].op = "with_shard" /\ proc[p].res.tag = "Ok"
            /\ ~(snap.rootExists /\ snap.sharding.exists)) =>
            /\ rootExists
            /\ sharding = [exists |-> TRUE, text |-> ToDescriptor(proc[p].shard)]
            /\ store[p] = proc[p].shard

\* C12 witness: with_shard with a strategy other than the default has
\* succeeded on a root that existed without a SHARDING file
C12_Witness ==
    \E p \in Procs :
        /\ proc[p].pc = "done"
        /\ proc[p].op = "with_shard"
        /\ proc[p].res.tag = "Ok"
        /\ snap.rootExists
        /\ ~snap.sharding.exists
        /\ proc[p].shard # DefaultShard
        /\ store[p] = proc[p].shard

\* the positions at which a process invokes a call wrapped in retry
RetriedPcs == {"get_read", "del_remove", "put_mkdir", "put_open", "put_write", "put_rename"}

\* what the call at p's position answers when the filesystem is healthy
Natural(p) ==
    CASE proc[p].pc = "get_read" -> FsRead(filepath(p))
      [] proc[p].pc = "del_remove" -> FsRemoveResult(filepath(p))
      [] proc[p].pc = "put_mkdir" -> FsCreateDirResult(filepath(p).dir)
      [] proc[p].pc = "put_open" -> FsCreateResult(temp_filepath(filepath(p)))
      [] proc[p].pc = "put_write" -> Ok("unit")
      [] proc[p].pc = "put_rename" -> FsRenameResult(temp_filepath(filepath(p)), filepath(p))

\* in this step p makes an invocation, or goes on with the one it is in
Invokes(p) == proc[p].pc \in RetriedPcs /\ proc'[p] # proc[p]

\* the result of that invocation
Attempted(p) == IF faults' < faults THEN Err("Injected") ELSE Natural(p)

\* where p stands after a successful step of an invocation
AfterSuccess(pc) ==
    CASE pc \in {"get_read", "del_remove", "put_rename"} -> {"done"}
      [] pc = "put_mkdir" -> {"put_open"}
      [] pc \in {"put_open", "put_write"} -> {"put_write", "put_rename"}

\* where the next invocation of the same call begins
Again(pc) == IF pc = "put_write" THEN "put_open" ELSE pc

\* C13: bounded retry. A wrapped call is invoked at most RETRY_ATTEMPTS = 6
\* times; the first success ends the retrying with that result; a failure
\* before the sixth invocation is followed by another invocation; an error
\* is returned after exactly six invocations; and every put, get and del
\* that has begun returns, however often the filesystem fails.
C13_BoundedRetry ==
    /\ [][\A p \in Procs : Invokes(p) =>
            /\ proc[p].n + 1 <= RETRY_ATTEMPTS
            /\ Attempted(p).tag = "Ok" =>
                  /\ proc'[p].pc \in AfterSuccess(proc[p].pc)
                  /\ proc'[p].n \in {0, proc[p].n}
                  /\ proc'[p].pc = "done" => SameRes(proc'[p].res, Attempted(p))
            /\ (Attempted(p).tag = "Err" /\ proc[p].n + 1 < RETRY_ATTEMPTS) =>
                  /\ proc'[p].pc = Again(proc[p].pc)
                  /\ proc'[p].n = proc[p].n + 1
            /\ (proc'[p].pc = "done" /\ proc'[p].res.tag = "Err") =>
                  proc[p].n + 1 = RETRY_ATTEMPTS]_vars
    /\ (proc["p1"].op \in {"put", "get", "del"} /\ proc["p1"].pc # "idle")
          ~> (proc["p1"].pc = "done")

\* C13 witness: a get of a stored value has returned an error, every one
\* of its invocations of fs::read having failed
C13_Witness ==
    \E p \in Procs :
        /\ Finished(p, "get")
        /\ proc[p].res.tag = "Err"
        /\ GetNow(p, proc[p].key).tag = "Ok"

\* C14: the last error propagates. Whatever its kind, a failure before
\* the sixth invocation is retried, and when the sixth fails the error
\* returned is the error of that invocation, unchanged (put alone drops
\* an "already exists" returned for its create_dir).
C14_LastErrorPropagates ==
    [][\A p \in Procs : (Invokes(p) /\ Attempted(p).tag = "Err") =>
          IF proc[p].n + 1 < RETRY_ATTEMPTS
          THEN /\ proc'[p].pc = Again(proc[p].pc)
               /\ proc'[p].res.tag = "None"
          ELSE \/ /\ proc'[p].pc = "done"
                  /\ SameRes(proc'[p].res, Attempted(p))
               \/ /\ proc[p].pc = "put_mkdir"
                  /\ Attempted(p).val = "AlreadyExists"
                  /\ proc'[p].pc = "put_open"]_vars

\* C14 witness: a del of an absent key, whose invocations fail with "not
\* found" when the filesystem is healthy, has returned the injected error
\* of its last invocation
C14_Witness ==
    \E p \in Procs :
        /\ Finished(p, "del")
        /\ proc[p].res.tag = "Err"
        /\ proc[p].res.val = "Injected"
        /\ FsRemoveResult(filepath(p)).tag = "Err"
        /\ FsRemoveResult(filepath(p)).val = "NotFound"

\* C15: two concurrent puts into one missing shard directory. The put
\* that found the directory missing and whose create_dir ended with
\* "already exists" goes on to write and rename, and returns success.
C15_MkdirRaceTolerated ==
    \A p \in Procs :
        (proc[p].op = "put" /\ proc[p].raced) =>
            /\ proc[p].pc \in {"put_open", "put_write", "put_rename", "done"}
            /\ proc[p].pc = "done" => proc[p].res.tag = "Ok"

\* C16: a put that returns an error leaves the file at its key's final
\* path as it was when the put began, so get(k) returns what it returned
\* before; a put refused by validation leaves the whole tree as it was.
C16_FailedPutKeepsValue ==
    \A p \in Procs :
        (proc[p].pc = "done" /\ proc[p].op = "put" /\ proc[p].res.tag = "Err") =>
            IF proc[p].key \in ValidKeys
            THEN LET fin == Loc(filepath(p))
                 IN  /\ (fin \in DOMAIN files) = (fin \in DOMAIN snap.files)
                     /\ fin \in DOMAIN files => files[fin] = snap.files[fin]
                     /\ SameRes(GetNow(p, proc[p].key), GetThen(p, proc[p].key))
            ELSE Snapshot = snap

\* C16 witness: a put over a different stored value has failed in its
\* rename, the temporary file holding the whole new value
C16_Witness ==
    \E p \in Procs :
        /\ Finished(p, "put")
        /\ proc[p].res.tag = "Err"
        /\ proc[p].val # <<>>
        /\ Loc(temp_filepath(filepath(p))) \in DOMAIN files
        /\ files[Loc(temp_filepath(filepath(p)))] = proc[p].val
        /\ Loc(filepath(p)) \in DOMAIN files
        /\ files[Loc(filepath(p))] # proc[p].val

\* the path stays under the root: neither its directory nor its last
\* component is ".."
Inside(path) == path.dir # DotDot /\ path.name # DotDot

\* C17: root containment. For every key the validation accepts and every
\* strategy, no file is ever created outside the root, and the final and
\* the temporary path of an operation that succeeded lie inside it.
C17_RootContainment ==
    /\ \A loc \in DOMAIN files : Inside(loc)
    /\ \A p \in Procs :
          (proc[p].pc = "done" /\ proc[p].op \in KeyOps
              /\ ensure_valid_key(proc[p].key) /\ proc[p].res.tag = "Ok")
              => /\ Inside(filepath(p))
                 /\ Inside(temp_filepath(filepath(p)))

\* C18: two concurrent puts of one key on a healthy filesystem both
\* return success.
C18_ConcurrentPutsSucceed ==
    \A p \in Procs : Finished(p, "put") => proc[p].res.tag = "Ok"

====
